---------------------------- MODULE Spec2Model ----------------------------
(***************************************************************************)
(* Model of the port-proxy manager (src/build.sh lines 11-690, the Go      *)
(* program main.go carried inside the build script).                       *)
(*                                                                         *)
(*   Part I   the frpc process supervisor: getFrpcProcess, stopFrpc,       *)
(*            startFrpc, restartFrpc, run by concurrent HTTP requests      *)
(*            against the OS process table (specification Spec).           *)
(*   Part II  the registry file frpc.toml: getFrpProxies, appendToFrpc,    *)
(*            deleteFrpProxy, registerWebUIToFrpc as functions of the      *)
(*            file's bytes (specification SpecReg).                        *)
(***************************************************************************)
EXTENDS Integers, Sequences, FiniteSets, Bags, TLC

VARIABLES
    goos,       \* runtime.GOOS of the build: "windows" or "other"
    running,    \* OS process table: PIDs of the live frpc.exe processes
    reqs,       \* the bag of in-flight HTTP requests (goroutines), one record each
    exists,     \* whether frpc.toml is there
    content,    \* bytes of frpc.toml, a sequence of one-character strings
    prev,       \* bytes of frpc.toml before the last registry operation
    base,       \* bytes of frpc.toml before the current run of equal operations
    rep,        \* 2 once the last operation has been done twice or more in a row
    last,       \* the last registry operation, its argument and its outcome
    view        \* the last answer of getFrpProxies, while nothing was written since

supVars == <<goos, running, reqs>>
regVars == <<exists, content, prev, base, rep, last, view>>
vars == <<goos, running, reqs, exists, content, prev, base, rep, last, view>>

(***************************************************************************)
(*                    PART I : THE PROCESS SUPERVISOR                      *)
(***************************************************************************)

\* Number of HTTP requests that can be in flight at once.
MaxReq == 2
\* Number of distinct PIDs the OS hands out to frpc.exe.
MaxPid == 2

PIDs == 1..MaxPid

NoProc == 0          \* the nil *os.Process
NoErr == "nil"       \* the nil error

\* The record of a request whose handler has just been entered.  op is the
\* handler, fn the function of the supervisor it is in, pc the next OS call of
\* that function; pid, proc and lerr are the locals of getFrpcProcess and its
\* result; stopRet and startRet are what stopFrpc and startFrpc returned;
\* result is what the handler got back.  kills, logs, spawned, stops and
\* starts count the taskkill runs, the log files opened, the processes created
\* and the calls of stopFrpc and startFrpc made by this request; stopDone
\* records, at the call of startFrpc, whether stopFrpc had returned.
NewReq ==
    [op |-> "new", fn |-> "none", pc |-> "new", pid |-> 0, proc |-> NoProc,
     lerr |-> NoErr, stopRet |-> "pending", startRet |-> "pending",
     result |-> "pending", kills |-> 0, spawned |-> 0, logs |-> 0,
     starts |-> 0, stops |-> 0, stopDone |-> FALSE]

\* The handler (lines 647, 662, 677) or restartFrpc (line 607) got v back.
Respond(rec, v) == [rec EXCEPT !.pc = "done", !.result = v]

\* restartFrpc with the sequence aborted by an error of stopFrpc.
RestartAfterStopAbort(rec) ==
    IF rec.stopRet = NoErr THEN [rec EXCEPT !.pc = "restart_settle"]
    ELSE Respond(rec, rec.stopRet)

\* restartFrpc lines 595-604, after stopFrpc returned: an error is only
\* logged, and the settle delay follows.
RestartAfterStop(rec) == [rec EXCEPT !.pc = "restart_settle"]

\* A return of stopFrpc / startFrpc with value v, back into its caller: the
\* HTTP handler (handleStartFrpc, handleStopFrpc) or restartFrpc, which
\* returns what startFrpc returned.
Return(rec, v) ==
    LET back == IF rec.fn = "stop" THEN [rec EXCEPT !.stopRet = v]
                ELSE [rec EXCEPT !.startRet = v]
    IN  IF rec.op = "restart" /\ rec.fn = "stop"
        THEN RestartAfterStop(back)
        ELSE Respond(back, v)

\* Entry of stopFrpc (lines 519-525) or startFrpc (lines 546-553): the call is
\* counted; off Windows the function returns nil at once, on Windows it calls
\* getFrpcProcess.
CallFn(rec, f, os) ==
    LET called == [rec EXCEPT !.fn = f, !.pid = 0, !.proc = NoProc, !.lerr = NoErr,
                              !.stops = IF f = "stop" THEN @ + 1 ELSE @,
                              !.starts = IF f = "start" THEN @ + 1 ELSE @,
                              !.stopDone = IF f = "start"
                                           THEN rec.stopRet # "pending" ELSE @]
    IN  IF os # "windows" THEN Return(called, NoErr)
        ELSE [called EXCEPT !.pc = "loc_tasklist"]

\* restartFrpc lines 591-595 call stopFrpc first; the two other handlers call
\* their function (lines 647, 662).
FirstCall(o) == IF o = "start" THEN "start" ELSE "stop"

\* One step of the request with record rec, which becomes rec2.
Step(rec, rec2) ==
    reqs' = (reqs (-) SetToBag({rec})) (+) SetToBag({rec2})

\* The requests that are at the OS call named at.
At(at) == { rec \in BagToSet(reqs) : rec.pc = at }

\* An HTTP request arrives: handleStartFrpc, handleStopFrpc, handleRestartFrpc.
Begin(o) ==
    /\ BagCardinality(reqs) < MaxReq
    /\ reqs' = reqs (+) SetToBag({CallFn([NewReq EXCEPT !.op = o], FirstCall(o), goos)})
    /\ UNCHANGED <<goos, running, regVars>>

\* stopFrpc without the early return for a process that is not running.
StopCheckRecNoEarlyReturn(rec) ==
    IF rec.lerr # NoErr THEN Return(rec, "ErrLookup")
    ELSE [rec EXCEPT !.pc = "stop_kill"]

\* stopFrpc lines 525-533 once getFrpcProcess has returned (rec.proc, rec.lerr).
StopCheckRec(rec) ==
    IF rec.lerr # NoErr THEN Return(rec, "ErrLookup")
    ELSE IF rec.proc = NoProc THEN Return(rec, NoErr)
    ELSE [rec EXCEPT !.pc = "stop_kill"]

\* startFrpc without the check for a process that is already running.
StartCheckRecNoGuard(rec) ==
    IF rec.lerr # NoErr THEN Return(rec, "ErrCheck")
    ELSE [rec EXCEPT !.pc = "start_openlog"]

\* startFrpc lines 553-560 once getFrpcProcess has returned (rec.proc, rec.lerr).
StartCheckRec(rec) ==
    IF rec.lerr # NoErr THEN Return(rec, "ErrCheck")
    ELSE IF rec.proc # NoProc THEN Return(rec, "AlreadyRunning")
    ELSE [rec EXCEPT !.pc = "start_openlog"]

\* A return of getFrpcProcess with (p, e) into stopFrpc or startFrpc.
Located(rec, p, e) ==
    LET got == [rec EXCEPT !.proc = p, !.lerr = e]
    IN  IF rec.fn = "stop" THEN StopCheckRec(got) ELSE StartCheckRec(got)

\* getFrpcProcess lines 477-487: the tasklist probe.  The command fails, or its
\* output names frpc.exe exactly when a frpc.exe process is alive.
LocTasklist ==
    \E rec \in At("loc_tasklist") :
    /\ \E fails \in BOOLEAN :
         Step(rec, IF fails THEN Located(rec, NoProc, "LocErr")
                   ELSE IF running = {} THEN Located(rec, NoProc, NoErr)
                   ELSE [rec EXCEPT !.pc = "loc_wmic"])
    /\ UNCHANGED <<goos, running, regVars>>

\* A line of wmic's output, trimmed: Digits(p) is the decimal text of p, and
\* Text(s) is the text s, which holds no digit.
Digits(p) == [text |-> "#", num |-> p]
Text(s) == [text |-> s, num |-> 0]

\* What wmic prints for the process table: a header line, one line per live
\* frpc.exe PID in some order, a closing blank line.  With no instance left
\* its standard output holds no PID line.  When the query is not answered
\* the second line is the text of a message.
WmicOutputs(procs) ==
    { <<Text("Node"), Text("ERROR:"), Text("")>> }
    \cup
    IF procs = {}
    THEN { <<Text("")>>, <<Text(""), Text("")>>,
           <<Text("No Instance(s) Available."), Text("")>> }
    ELSE { <<Text("ProcessId"), Digits(p), Text("")>> : p \in procs }
         \cup { <<Text("ProcessId"), Digits(pq[1]), Digits(pq[2]), Text("")>> :
                   pq \in { x \in procs \X procs : x[1] # x[2] } }

\* fmt.Sscanf(pidStr, "%d", &pid), lines 507-508: pid stays 0 when pidStr is
\* not a number; the error of Sscanf is dropped.
Sscanf(pidStr) == IF pidStr.text = "#" THEN pidStr.num ELSE 0

\* getFrpcProcess lines 497-508 on the lines of wmic's output.
ParseWmic(rec, lines) ==
    IF Len(lines) < 2 THEN Located(rec, NoProc, NoErr)
    ELSE IF lines[2].text = "" THEN Located(rec, NoProc, NoErr)
    ELSE [rec EXCEPT !.pid = Sscanf(lines[2]), !.pc = "loc_find"]

\* getFrpcProcess lines 489-508: the wmic query and the parse of its output.
LocWmic ==
    \E rec \in At("loc_wmic") :
    /\ \/ Step(rec, Located(rec, NoProc, "LocErr"))
       \/ \E lines \in WmicOutputs(running) : Step(rec, ParseWmic(rec, lines))
    /\ UNCHANGED <<goos, running, regVars>>

\* getFrpcProcess lines 510-515: os.FindProcess opens the process on Windows
\* and fails when no process has that PID (PID 0 included).
LocFind ==
    \E rec \in At("loc_find") :
    /\ Step(rec, IF rec.pid \in running THEN Located(rec, rec.pid, NoErr)
                 ELSE Located(rec, NoProc, "LocErr"))
    /\ UNCHANGED <<goos, running, regVars>>

\* stopFrpc lines 534-542: taskkill /F /IM frpc.exe ends every process of that
\* image name, or fails (no such process any more, access denied).
StopKill ==
    \E rec \in At("stop_kill") :
    /\ \/ /\ running # {}
          /\ running' = {}
          /\ Step(rec, Return([rec EXCEPT !.kills = @ + 1], NoErr))
       \/ /\ running' = running
          /\ Step(rec, Return([rec EXCEPT !.kills = @ + 1], "ErrKill"))
    /\ UNCHANGED <<goos, regVars>>

\* startFrpc lines 562-570: the log file is opened in append mode.
StartOpenLog ==
    \E rec \in At("start_openlog") :
    /\ \/ Step(rec, [rec EXCEPT !.logs = @ + 1, !.pc = "start_spawn"])
       \/ Step(rec, Return(rec, "ErrLog"))
    /\ UNCHANGED <<goos, running, regVars>>

\* startFrpc lines 572-587: cmd.Start creates the process under a PID that no
\* live process has and startFrpc returns nil without waiting for it; or
\* cmd.Start fails and the log file is closed.
StartSpawn ==
    \E rec \in At("start_spawn") :
    /\ \/ \E p \in PIDs \ running :
            /\ running' = running \cup {p}
            /\ Step(rec, Return([rec EXCEPT !.spawned = @ + 1], NoErr))
       \/ /\ Step(rec, Return(rec, "ErrStart"))
          /\ UNCHANGED running
    /\ UNCHANGED <<goos, regVars>>

\* restartFrpc lines 599-607: the settle delay, then startFrpc.
RestartSettle ==
    \E rec \in At("restart_settle") :
    /\ Step(rec, CallFn(rec, "start", goos))
    /\ UNCHANGED <<goos, running, regVars>>

\* The handler writes its response and the request ends.
Finish ==
    \E rec \in At("done") :
    /\ reqs' = reqs (-) SetToBag({rec})
    /\ UNCHANGED <<goos, running, regVars>>

\* A frpc.exe process exits on its own (the goroutine of lines 581-584 then
\* closes its log file and does nothing else).
ChildExit(p) ==
    /\ p \in running
    /\ running' = running \ {p}
    /\ UNCHANGED <<goos, reqs, regVars>>

Ops == {"start", "stop", "restart"}

\* The supervisor does not touch frpc.toml.
InitReg0 ==
    /\ exists = TRUE
    /\ content = <<>>
    /\ prev = <<>>
    /\ base = <<>>
    /\ rep = 0
    /\ last = [op |-> "none"]
    /\ view = [fresh |-> FALSE]

Init ==
    /\ goos \in {"windows", "other"}
    /\ running = {}
    /\ reqs = EmptyBag
    /\ InitReg0

Next ==
    \/ \E o \in Ops : Begin(o)
    \/ LocTasklist
    \/ LocWmic
    \/ LocFind
    \/ StopKill
    \/ StartOpenLog
    \/ StartSpawn
    \/ RestartSettle
    \/ Finish
    \/ \E p \in PIDs : ChildExit(p)

Spec == Init /\ [][Next]_vars

(***************************************************************************)
(*                  Properties of the process supervisor                   *)
(***************************************************************************)

InFlight == BagToSet(reqs)

\* C1: on Windows, whatever the interleaving of concurrent start, stop and
\* restart requests, at most one frpc process launched by the manager is
\* running at any time.  (Every process of the model is launched by the
\* manager.)
C1_AtMostOneInstance ==
    goos = "windows" => Cardinality(running) <= 1

\* The calls of startFrpc that have returned, with the report of the Locator
\* they acted on.
StartReturned == { rec \in InFlight : rec.fn = "start" /\ rec.pc = "done" }

\* C2: a call of startFrpc to which the Locator reported a live process
\* returns the AlreadyRunning error, has opened no log file and has created no
\* process.
C2_StartWhenRunning ==
    \A rec \in StartReturned :
        (rec.lerr = NoErr /\ rec.proc # NoProc)
            => /\ rec.startRet = "AlreadyRunning"
               /\ rec.result = "AlreadyRunning"
               /\ rec.spawned = 0
               /\ rec.logs = 0

\* C2's case: on Windows a start call has returned after the Locator reported
\* a live process, which is still running.
C2_Witness ==
    \E rec \in StartReturned :
        /\ goos = "windows"
        /\ rec.proc # NoProc
        /\ rec.proc \in running
        /\ rec.result = "AlreadyRunning"

\* The calls of stopFrpc that have returned: to handleStopFrpc, or to
\* restartFrpc, which is then at its settle delay.
StopReturned ==
    { rec \in InFlight : rec.fn = "stop" /\ rec.pc \in {"done", "restart_settle"} }

\* C3: a call of stopFrpc to which the Locator reported no live process
\* returns nil without having run taskkill; taskkill is run only for a process
\* the Locator reported, a stop request creates no process, and a call of
\* stopFrpc that returns an error had a failed lookup or a failed taskkill.
C3_StopWhenStopped ==
    /\ \A rec \in StopReturned :
          /\ (rec.lerr = NoErr /\ rec.proc = NoProc)
                => (rec.stopRet = NoErr /\ rec.kills = 0)
          /\ rec.stopRet # NoErr => (rec.lerr # NoErr \/ rec.kills = 1)
    /\ \A rec \in InFlight :
          /\ (rec.fn = "stop" /\ rec.kills > 0) => rec.proc # NoProc
          /\ rec.op = "stop" => (rec.spawned = 0 /\ rec.starts = 0)

\* C3's case: on Windows, in the Stopped state, a stop request has returned
\* nil after the Locator's probe found no process.
C3_Witness ==
    \E rec \in StopReturned :
        /\ goos = "windows"
        /\ running = {}
        /\ rec.op = "stop"
        /\ rec.lerr = NoErr
        /\ rec.proc = NoProc
        /\ rec.result = NoErr

\* C4: every restart calls stopFrpc once and first, calls startFrpc only
\* after stopFrpc has returned and at most once, and returns, whatever
\* stopFrpc returned, after exactly one call of startFrpc and with the value
\* that call returned.
C4_RestartStopThenStart ==
    \A rec \in InFlight :
        rec.op = "restart"
            => /\ rec.stops = 1
               /\ rec.starts <= 1
               /\ rec.starts = 1 => (rec.stopDone /\ rec.stopRet # "pending")
               /\ rec.fn = "start" <=> rec.starts = 1
               /\ rec.pc = "done"
                    => /\ rec.starts = 1
                       /\ rec.startRet # "pending"
                       /\ rec.result = rec.startRet

\* C4's case: on Windows a restart whose stop step failed has returned what
\* its one call of startFrpc returned.
C4_Witness ==
    \E rec \in InFlight :
        /\ goos = "windows"
        /\ rec.op = "restart"
        /\ rec.pc = "done"
        /\ rec.stopRet \in {"ErrLookup", "ErrKill"}
        /\ rec.starts = 1
        /\ rec.result = NoErr


(***************************************************************************)
(*                    PART II : THE REGISTRY FILE                          *)
(*                                                                         *)
(* A Go string is modelled as the sequence of its characters, each a       *)
(* one-character string, so that strings.Split, strings.TrimSpace, the     *)
(* regular expressions and fmt.Sprintf are computed on the text itself.    *)
(***************************************************************************)

LF == "\n"
CR == "\r"
Quote == "\""

\* "[[proxies]]", the block marker of lines 329, 373, 433 and 451.
Marker == <<"[", "[", "p", "r", "o", "x", "i", "e", "s", "]", "]">>

DigitChars == <<"0", "1", "2", "3", "4", "5", "6", "7", "8", "9">>

Min(S) == CHOOSE x \in S : \A y \in S : x <= y
Max(S) == CHOOSE x \in S : \A y \in S : y <= x

\* unicode.IsSpace and the class \s of regexp, on the characters of the model.
IsSpace(c) == c \in {" ", "\t", "\n", "\r", "\f"}

IsDigit(c) == \E d \in 1..10 : DigitChars[d] = c

\* The first index from i on of a character that is not white space, and the
\* last index up to i of one.
RECURSIVE SkipSpace(_, _)
SkipSpace(s, i) ==
    IF i <= Len(s) /\ IsSpace(s[i]) THEN SkipSpace(s, i + 1) ELSE i

RECURSIVE SkipSpaceBack(_, _)
SkipSpaceBack(s, i) ==
    IF i >= 1 /\ IsSpace(s[i]) THEN SkipSpaceBack(s, i - 1) ELSE i

\* strings.TrimSpace.
TrimSpace(s) == SubSeq(s, SkipSpace(s, 1), SkipSpaceBack(s, Len(s)))

\* strings.HasPrefix and strings.HasSuffix.
HasPrefix(s, p) == Len(s) >= Len(p) /\ SubSeq(s, 1, Len(p)) = p
HasSuffix(s, p) == Len(s) >= Len(p) /\ SubSeq(s, Len(s) - Len(p) + 1, Len(s)) = p

\* strings.Split(s, "\n"): the text between the line feeds, one element more
\* than there are line feeds.
RECURSIVE Ascending(_)
Ascending(S) == IF S = {} THEN <<>> ELSE <<Min(S)>> \o Ascending(S \ {Min(S)})

Split(s) ==
    LET feeds == Ascending({ i \in 1..Len(s) : s[i] = LF })
        n == Len(feeds)
    IN  [k \in 1..(n + 1) |->
            SubSeq(s, IF k = 1 THEN 1 ELSE feeds[k - 1] + 1,
                      IF k = n + 1 THEN Len(s) ELSE feeds[k] - 1)]

\* strings.Join with a separator that is also written after the last line.
RECURSIVE JoinTerminated(_)
JoinTerminated(lines) ==
    IF lines = <<>> THEN <<>>
    ELSE Head(lines) \o <<LF>> \o JoinTerminated(Tail(lines))

\* strings.Join(lines, "\n").
RECURSIVE Join(_)
Join(lines) ==
    IF lines = <<>> THEN <<>>
    ELSE IF Len(lines) = 1 THEN lines[1]
    ELSE lines[1] \o <<LF>> \o Join(Tail(lines))

\* The lines bufio.Scanner yields with its default split function ScanLines:
\* each line without its line feed and without one carriage return before it;
\* text after the last line feed is a line only when it is not empty.
DropCR(line) ==
    IF line # <<>> /\ line[Len(line)] = CR THEN SubSeq(line, 1, Len(line) - 1) ELSE line

ScanLines(text) ==
    LET split == Split(text)
        kept == IF split[Len(split)] = <<>> THEN SubSeq(split, 1, Len(split) - 1)
                ELSE split
    IN  [i \in 1..Len(kept) |-> DropCR(kept[i])]

\* The common head ^\s*key\s*=\s* of the five expressions of lines 320-324:
\* the index after the match, 0 when the line does not match.
MatchKey(s, key) ==
    LET a == SkipSpace(s, 1)
        b == a + Len(key)
    IN  IF b - 1 <= Len(s) /\ SubSeq(s, a, b - 1) = key
        THEN LET c == SkipSpace(s, b)
             IN  IF c <= Len(s) /\ s[c] = "=" THEN SkipSpace(s, c + 1) ELSE 0
        ELSE 0

NoMatch == [ok |-> FALSE, val |-> <<>>]

\* FindStringSubmatch for ^\s*key\s*=\s*"(.*)" : the group is greedy, it runs
\* to the last quote of the line.
MatchQuoted(s, key) ==
    LET i == MatchKey(s, key)
    IN  IF i = 0 \/ i > Len(s) THEN NoMatch
        ELSE IF s[i] # Quote THEN NoMatch
        ELSE LET quotes == { j \in (i + 1)..Len(s) : s[j] = Quote }
             IN  IF quotes = {} THEN NoMatch
                 ELSE [ok |-> TRUE, val |-> SubSeq(s, i + 1, Max(quotes) - 1)]

\* FindStringSubmatch for ^\s*key\s*=\s*(\d+) : the group is the longest run of
\* digits at that place.
MatchDigits(s, key) ==
    LET i == MatchKey(s, key)
    IN  IF i = 0 \/ i > Len(s) THEN NoMatch
        ELSE IF ~IsDigit(s[i]) THEN NoMatch
        ELSE LET stops == { j \in i..Len(s) : ~IsDigit(s[j]) }
                 stop == IF stops = {} THEN Len(s) + 1 ELSE Min(stops)
             IN  [ok |-> TRUE, val |-> SubSeq(s, i, stop - 1)]

KeyName == <<"n", "a", "m", "e">>
KeyType == <<"t", "y", "p", "e">>
KeyLocalIP == <<"l", "o", "c", "a", "l", "I", "P">>
KeyLocalPort == <<"l", "o", "c", "a", "l", "P", "o", "r", "t">>
KeyRemotePort == <<"r", "e", "m", "o", "t", "e", "P", "o", "r", "t">>

reName(line) == MatchQuoted(line, KeyName)
reType(line) == MatchQuoted(line, KeyType)
reLocalIP(line) == MatchQuoted(line, KeyLocalIP)
reLocalPort(line) == MatchDigits(line, KeyLocalPort)
reRemotePort(line) == MatchDigits(line, KeyRemotePort)

\* The zero value of FrpProxy (line 333).
ZeroProxy ==
    [Name |-> <<>>, Type |-> <<>>, LocalIP |-> <<>>, LocalPort |-> <<>>,
     RemotePort |-> <<>>]

\* getFrpProxies lines 337-349: the first expression that matches the line
\* sets its field of the open record.
SetField(p, line) ==
    LET name == reName(line)
        type == reType(line)
        localIP == reLocalIP(line)
        localPort == reLocalPort(line)
        remotePort == reRemotePort(line)
    IN  IF name.ok THEN [p EXCEPT !.Name = name.val]
        ELSE IF type.ok THEN [p EXCEPT !.Type = type.val]
        ELSE IF localIP.ok THEN [p EXCEPT !.LocalIP = localIP.val]
        ELSE IF localPort.ok THEN [p EXCEPT !.LocalPort = localPort.val]
        ELSE IF remotePort.ok THEN [p EXCEPT !.RemotePort = remotePort.val]
        ELSE p

\* getFrpProxies lines 326-355: the scan of the lines from line i on, with
\* the records closed so far and the open record cur (the pointer current).
RECURSIVE ParseFrom(_, _, _, _)
ParseFrom(lines, i, proxies, cur) ==
    IF i > Len(lines)
    THEN IF cur.open THEN Append(proxies, cur.p) ELSE proxies
    ELSE LET line == TrimSpace(lines[i])
         IN  IF line = Marker
             THEN ParseFrom(lines, i + 1,
                            IF cur.open THEN Append(proxies, cur.p) ELSE proxies,
                            [open |-> TRUE, p |-> ZeroProxy])
             ELSE IF cur.open
             THEN ParseFrom(lines, i + 1, proxies, [cur EXCEPT !.p = SetField(@, line)])
             ELSE ParseFrom(lines, i + 1, proxies, cur)

\* getFrpProxies on the bytes of frpc.toml.
GetFrpProxies(text) ==
    ParseFrom(ScanLines(text), 1, <<>>, [open |-> FALSE, p |-> ZeroProxy])

\* The default configuration of main, lines 73-81 (config.json may replace it).
ConfigPort == 8080
ConfigWebUIRemotePort == 18080
ConfigName == <<"d", "e", "f", "a", "u", "l", "t">>
ConfigWebUIProxyName == <<"p", "o", "r", "t", "p", "r", "o", "x", "y", "-", "m", "a", "n", "a", "g", "e", "r", "-", "w", "e", "b">>

\* fmt.Sprintf("%d", n) for n >= 0.
RECURSIVE FormatInt(_)
FormatInt(n) ==
    IF n < 10 THEN <<DigitChars[n + 1]>>
    ELSE FormatInt(n \div 10) \o <<DigitChars[(n % 10) + 1]>>

\* The block without the line feed before its marker.
ProxyBlockNoBlank(name, localPort, remotePort) ==
    Marker \o <<LF>>
    \o <<"n", "a", "m", "e", " ", "=", " ", "\"">> \o name \o <<Quote, LF>>
    \o <<"t", "y", "p", "e", " ", "=", " ", "\"", "t", "c", "p", "\"">> \o <<LF>>
    \o <<"l", "o", "c", "a", "l", "I", "P", " ", "=", " ", "\"", "1", "2", "7", ".", "0", ".", "0", ".", "1", "\"">> \o <<LF>>
    \o <<"l", "o", "c", "a", "l", "P", "o", "r", "t", " ", "=", " ">> \o localPort \o <<LF>>
    \o <<"r", "e", "m", "o", "t", "e", "P", "o", "r", "t", " ", "=", " ">> \o remotePort \o <<LF>>

\* The text both writers build in their strings.Builder (lines 147-153 and
\* 402-408): a line feed, the marker, the name, the constant type and local
\* address, and the two ports as given.
ProxyBlock(name, localPort, remotePort) ==
    <<LF>> \o Marker \o <<LF>>
    \o <<"n", "a", "m", "e", " ", "=", " ", "\"">> \o name \o <<Quote, LF>>
    \o <<"t", "y", "p", "e", " ", "=", " ", "\"", "t", "c", "p", "\"">> \o <<LF>>
    \o <<"l", "o", "c", "a", "l", "I", "P", " ", "=", " ", "\"", "1", "2", "7", ".", "0", ".", "0", ".", "1", "\"">> \o <<LF>>
    \o <<"l", "o", "c", "a", "l", "P", "o", "r", "t", " ", "=", " ">> \o localPort \o <<LF>>
    \o <<"r", "e", "m", "o", "t", "e", "P", "o", "r", "t", " ", "=", " ">> \o remotePort \o <<LF>>

\* Line 400: fmt.Sprintf("%s-manager-%s-%s", req.Name, req.ConnectAddr, req.ConnectPort).
ProxyName(r) ==
    r.Name \o <<"-", "m", "a", "n", "a", "g", "e", "r", "-">> \o r.ConnectAddr \o <<"-">> \o r.ConnectPort

\* appendToFrpc lines 392-414 on the bytes of frpc.toml: the file is opened
\* with O_APPEND and the block is written behind what is there.
AppendToFrpc(text, r) ==
    text \o ProxyBlock(ProxyName(r), r.ListenPort, r.RemotePort)

\* Line 131: config.Name + "-" + config.WebUIProxyName.
WebUIProxyFullName == ConfigName \o <<"-">> \o ConfigWebUIProxyName

\* A lookup that never finds the record.
AlreadyRegisteredNever(proxies, fullName) == FALSE

\* registerWebUIToFrpc lines 133-138: is a record of that name listed?
AlreadyRegistered(proxies, fullName) ==
    \E k \in 1..Len(proxies) : proxies[k].Name = fullName

\* registerWebUIToFrpc lines 123-161 on the bytes of frpc.toml.
RegisterWebUIToFrpc(text) ==
    IF AlreadyRegistered(GetFrpProxies(text), WebUIProxyFullName) THEN text
    ELSE text \o ProxyBlock(WebUIProxyFullName, FormatInt(ConfigPort),
                            FormatInt(ConfigWebUIRemotePort))

\* A comparison that takes a name that only starts with proxyName.
NameMatchesPrefix(captured, proxyName) == HasPrefix(captured, proxyName)

\* Line 438: the name captured on the line after the marker is the one to delete.
NameMatches(captured, proxyName) == captured = proxyName

\* A boundary test that ends the deleted block at its very next line.
IsSectionStartAlways(trimmed) == TRUE

\* Line 451: the line starts a new section.
IsSectionStart(trimmed) ==
    trimmed = Marker \/ (HasPrefix(trimmed, <<"[">>) /\ HasSuffix(trimmed, <<"]">>))

\* Lines 433-444: line i is a marker and the line after it names proxyName.
IsTargetMarker(lines, i, proxyName) ==
    /\ TrimSpace(lines[i]) = Marker
    /\ i + 1 <= Len(lines)
    /\ LET matches == reName(lines[i + 1])
       IN  matches.ok /\ NameMatches(matches.val, proxyName)

\* The loop of deleteFrpProxy, lines 428-459, from line i on: skip is
\* skipProxy, and keep lists the indices of the lines appended to newLines.
RECURSIVE DeleteLoop(_, _, _, _, _)
DeleteLoop(lines, i, skip, keep, proxyName) ==
    IF i > Len(lines) THEN keep
    ELSE IF IsTargetMarker(lines, i, proxyName)
    THEN DeleteLoop(lines, i + 1, TRUE, keep, proxyName)
    ELSE LET trimmed == TrimSpace(lines[i])
             skip1 == IF trimmed = Marker THEN FALSE ELSE skip
         IN  IF skip1
             THEN IF IsSectionStart(trimmed)
                  THEN DeleteLoop(lines, i + 1, FALSE, Append(keep, i), proxyName)
                  ELSE DeleteLoop(lines, i + 1, TRUE, keep, proxyName)
             ELSE DeleteLoop(lines, i + 1, skip1, Append(keep, i), proxyName)

\* newLines of deleteFrpProxy.
NewLines(lines, keep) == [k \in 1..Len(keep) |-> lines[keep[k]]]

\* The indices of the lines of text that deleteFrpProxy keeps.
DeleteKeep(text, proxyName) == DeleteLoop(Split(text), 1, FALSE, <<>>, proxyName)

\* deleteFrpProxy lines 416-463 on the bytes of frpc.toml: what it writes back.
DeleteFrpProxy(text, proxyName) ==
    LET lines == Split(text)
    IN  Join(NewLines(lines, DeleteLoop(lines, 1, FALSE, <<>>, proxyName)))

(***************************************************************************)
(* The registry operations as steps: one request at a time reads, appends  *)
(* to or rewrites frpc.toml.                                               *)
(***************************************************************************)

\* Number of pieces an initial frpc.toml is put together from.
MaxChunks == 2
\* A block is appended while frpc.toml has at most this many lines with it.
MaxLines == 15

\* Names of proxies found in an initial frpc.toml, and a name that is only
\* the end of one of them.
NameA == <<"a">>
NameAB == <<"a", "b">>
NameB == <<"b">>

\* A proxy block as far as its name line.
NamedBlock(name) == Marker \o <<LF>> \o <<"n", "a", "m", "e", " ", "=", " ", "\"">> \o name \o <<Quote, LF>>

\* The pieces of an initial frpc.toml, each one or two lines with their line
\* feeds: proxy blocks named "a", "ab" and as the web UI, a marker with a
\* space before and a carriage return after it, the line name = "a", and the
\* section [common] with that line as its key.
Chunks ==
    { NamedBlock(NameA), NamedBlock(NameAB), NamedBlock(WebUIProxyFullName),
      <<" ">> \o Marker \o <<CR, LF>>,
      <<"n", "a", "m", "e", " ", "=", " ", "\"">> \o NameA \o <<Quote, LF>>,
      <<"[", "c", "o", "m", "m", "o", "n", "]">> \o <<LF>> \o <<"n", "a", "m", "e", " ", "=", " ", "\"">> \o NameA \o <<Quote, LF>> }

RECURSIVE Concat(_)
Concat(texts) == IF texts = <<>> THEN <<>> ELSE Head(texts) \o Concat(Tail(texts))

\* The initial files: up to MaxChunks pieces, with or without the line feed
\* of the last line.
InitialFiles ==
    LET seqs == UNION { [1..k -> Chunks] : k \in 0..MaxChunks }
        full == { Concat(cs) : cs \in seqs }
    IN  full \cup { SubSeq(t, 1, Len(t) - 1) : t \in full \ {<<>>} }

\* The add-rule requests (AddRuleRequest, lines 56-63): one for a tcp proxy,
\* one that asks for type udp, and one whose remote port is not a number.
ReqTcp ==
    [Name |-> <<"a">>, ConnectAddr |-> <<"h">>, ConnectPort |-> <<"8">>,
     ListenPort |-> <<"8", "0">>, RemotePort |-> <<"9", "0">>, Type |-> <<"t", "c", "p">>]
ReqUdp ==
    [Name |-> <<"a">>, ConnectAddr |-> <<"h">>, ConnectPort |-> <<"9">>,
     ListenPort |-> <<"8", "0">>, RemotePort |-> <<"9", "0">>, Type |-> <<"u", "d", "p">>]
ReqBadPort == [ReqTcp EXCEPT !.RemotePort = <<"9", "x">>]
AddRequests == {ReqTcp, ReqUdp, ReqBadPort}
NoReq ==
    [Name |-> <<>>, ConnectAddr |-> <<>>, ConnectPort |-> <<>>,
     ListenPort |-> <<>>, RemotePort |-> <<>>, Type |-> <<>>]

\* The names a delete request asks for.
DeleteNames == {NameA, NameAB, NameB, ProxyName(ReqTcp)}

\* os.ReadFile and os.OpenFile without O_CREATE fail when frpc.toml is missing.
ErrNotExist == "ErrNotExist"
FileErr == IF exists THEN NoErr ELSE ErrNotExist

NoOp == [op |-> "none", name |-> <<>>, req |-> NoReq, err |-> NoErr]
NoView == [fresh |-> FALSE, err |-> NoErr, proxies |-> <<>>]

\* What a registry operation leaves behind: the new bytes, the bytes before
\* it, the operation itself, and, when the same operation has succeeded
\* twice or more in a row, the bytes before the first of these calls.
Record(op, name, r, text) ==
    LET this == [op |-> op, name |-> name, req |-> r, err |-> FileErr]
        again == last = this /\ FileErr = NoErr
    IN  /\ content' = (IF exists THEN text ELSE content)
        /\ prev' = content
        /\ base' = IF again THEN base ELSE content
        /\ rep' = IF again THEN 2 ELSE 1
        /\ last' = this
        /\ view' = NoView
        /\ UNCHANGED exists

CountLines(text) == Len(Split(text))

\* handleDeleteFrpProxy line 206: deleteFrpProxy(req.Name).
RegDelete ==
    /\ \E name \in DeleteNames :
         Record("delete", name, NoReq, DeleteFrpProxy(content, name))
    /\ UNCHANGED supVars

\* handleAddRule line 234: appendToFrpc(req).
RegAppend ==
    /\ \E r \in AddRequests :
         LET text == AppendToFrpc(content, r)
         IN  /\ CountLines(text) <= MaxLines
             /\ Record("append", ProxyName(r), r, text)
    /\ UNCHANGED supVars

\* main line 86: registerWebUIToFrpc(), run at each start of the manager.
RegRegister ==
    /\ LET text == RegisterWebUIToFrpc(content)
       IN  /\ CountLines(text) <= MaxLines
           /\ Record("register", WebUIProxyFullName, NoReq, text)
    /\ UNCHANGED supVars

\* handleGetFrpProxies line 183: getFrpProxies(), which changes nothing; to
\* ask again while nothing was written gives the same answer.
RegList ==
    /\ ~view.fresh
    /\ view' = [fresh |-> TRUE, err |-> FileErr,
                proxies |-> IF exists THEN GetFrpProxies(content) ELSE <<>>]
    /\ UNCHANGED <<exists, content, prev, base, rep, last>>
    /\ UNCHANGED supVars

InitReg ==
    /\ goos = "windows"
    /\ running = {}
    /\ reqs = EmptyBag
    /\ exists \in BOOLEAN
    /\ content \in (IF exists THEN InitialFiles ELSE {<<>>})
    /\ prev = content
    /\ base = content
    /\ rep = 0
    /\ last = NoOp
    /\ view = NoView

NextReg ==
    \/ RegDelete
    \/ RegAppend
    \/ RegRegister
    \/ RegList

SpecReg == InitReg /\ [][NextReg]_vars

(***************************************************************************)
(* Properties of the registry operations.  A proxy block is a marker line  *)
(* with the lines after it up to the next bracketed header or the end of   *)
(* the file; it is named by the name line that follows its marker.         *)
(***************************************************************************)

IsMarkerLine(line) == TrimSpace(line) = Marker

\* A bracket-delimited section header, the marker among them.
IsHeaderLine(line) ==
    HasPrefix(TrimSpace(line), <<"[">>) /\ HasSuffix(TrimSpace(line), <<"]">>)

\* The last line of the block whose marker is line m.
BlockEnd(lines, m) ==
    LET later == { j \in (m + 1)..Len(lines) : IsHeaderLine(lines[j]) }
    IN  IF later = {} THEN Len(lines) ELSE Min(later) - 1

\* Line m is the marker of a proxy block named name.
BlockNamed(lines, m, name) ==
    /\ IsMarkerLine(lines[m])
    /\ m + 1 <= Len(lines)
    /\ reName(lines[m + 1]) = [ok |-> TRUE, val |-> name]

\* The lines of the proxy blocks named name.
OfBlocksNamed(lines, name) ==
    { i \in 1..Len(lines) :
        \E m \in 1..i : BlockNamed(lines, m, name) /\ i <= BlockEnd(lines, m) }

DeleteDone == last.op = "delete" /\ last.err = NoErr

\* C5: a delete of X writes back the lines of the file in their order, and
\* leaves out none but lines of proxy blocks named exactly X: the blocks of
\* other names, the sections that are no proxy blocks and the header that
\* ends a deleted block are all kept.
C5_DeleteRemovesOnlyNamedBlocks ==
    DeleteDone =>
        LET lines == Split(prev)
            keep == DeleteKeep(prev, last.name)
            gone == OfBlocksNamed(lines, last.name)
        IN  /\ content = Join(NewLines(lines, keep))
            /\ \A k \in 1..(Len(keep) - 1) : keep[k] < keep[k + 1]
            /\ \A i \in 1..Len(lines) : i \notin gone => \E k \in 1..Len(keep) : keep[k] = i

\* C5's case: a block named "a" was deleted, and the header after it, which
\* opens the block "ab" or the section [common], is still there.
C5_Witness ==
    /\ DeleteDone
    /\ last.name = NameA
    /\ content # prev
    /\ LET lines == Split(prev)
           gone == OfBlocksNamed(lines, NameA)
       IN  \E i \in 2..Len(lines) :
               /\ (i - 1) \in gone
               /\ i \notin gone
               /\ IsHeaderLine(lines[i])
               /\ HasPrefix(content, lines[i])

\* C6: when no proxy block of the file is named X, a delete of X succeeds and
\* leaves the file byte for byte as it was.
C6_DeleteAbsentNameKeepsBytes ==
    (/\ last.op = "delete"
     /\ exists
     /\ \A m \in 1..Len(Split(prev)) : ~BlockNamed(Split(prev), m, last.name))
        => (last.err = NoErr /\ content = prev)

\* C6's case: "a" was asked for in a file that has a block named "ab" and a
\* carriage return but no line feed at its end, and the file is as before.
C6_Witness ==
    /\ last.op = "delete"
    /\ exists
    /\ last.name = NameA
    /\ \A m \in 1..Len(Split(prev)) : ~BlockNamed(Split(prev), m, NameA)
    /\ \E m \in 1..Len(Split(prev)) : BlockNamed(Split(prev), m, NameAB)
    /\ \E i \in 1..Len(prev) : prev[i] = CR
    /\ prev[Len(prev)] # LF
    /\ content = prev

\* C7: the second of two deletes of the same name in a row changes nothing
\* and succeeds.
C7_DeleteTwiceSameAsOnce ==
    (rep = 2 /\ last.op = "delete") => (content = prev /\ last.err = NoErr)

\* C7's case: the first delete took something out, the second has run.
C7_Witness ==
    /\ rep = 2
    /\ last.op = "delete"
    /\ prev # base
    /\ content = prev

\* The record an add-rule request asks for: the name of line 400, its type,
\* the local address of the port forward, and its two ports.
Requested(r) ==
    [Name |-> ProxyName(r), Type |-> r.Type, LocalIP |-> <<"1", "2", "7", ".", "0", ".", "0", ".", "1">>,
     LocalPort |-> r.ListenPort, RemotePort |-> r.RemotePort]

\* C8: after an append the bytes before it are a prefix of the file, and the
\* file parses to the records it parsed to before followed by the record
\* that was asked for, with its five fields as requested.
C8_AppendAddsRequestedRecord ==
    (last.op = "append" /\ last.err = NoErr) =>
        /\ HasPrefix(content, prev)
        /\ GetFrpProxies(content) = Append(GetFrpProxies(prev), Requested(last.req))

\* The number of listed records named as the web UI.
WebCount(text) ==
    Cardinality({ k \in 1..Len(GetFrpProxies(text)) :
                    GetFrpProxies(text)[k].Name = WebUIProxyFullName })

RegisteredTwice == rep = 2 /\ last.op = "register"

\* C9: from a file that lists at most one record named as the web UI, two
\* self-registrations in a row leave exactly one such record, and the second
\* writes nothing.
C9_RegisterTwiceOneEntry ==
    (RegisteredTwice /\ WebCount(base) <= 1) =>
        (WebCount(content) = 1 /\ content = prev)

\* C9's case: the file listed no such record, the first call wrote one and
\* the second has run.
C9_Witness ==
    /\ RegisteredTwice
    /\ WebCount(base) = 0
    /\ prev # base
    /\ WebCount(content) = 1

\* C9 as stated, from any file: two self-registrations in a row leave exactly
\* one record named as the web UI, and the second writes nothing.
C9_RegisterTwiceAnyFile ==
    RegisteredTwice => (WebCount(content) = 1 /\ content = prev)

\* The fields that the lines from line i to line j set, in their order.
RECURSIVE FieldsOf(_, _, _, _)
FieldsOf(lines, i, j, p) ==
    IF i > j THEN p ELSE FieldsOf(lines, i + 1, j, SetField(p, TrimSpace(lines[i])))

\* The markers of the file in their order, and the record of each block.
MarkerLines(lines) == Ascending({ m \in 1..Len(lines) : IsMarkerLine(lines[m]) })

OwnRecords(lines) ==
    [k \in 1..Len(MarkerLines(lines)) |->
        FieldsOf(lines, MarkerLines(lines)[k] + 1,
                 BlockEnd(lines, MarkerLines(lines)[k]), ZeroProxy)]

\* C10: the list of a file has one record for each marker line, in the order
\* of the markers, and the fields of each record are those set by the lines
\* of its own block.
C10_ParseOwnBlockFields ==
    (view.fresh /\ view.err = NoErr) => view.proxies = OwnRecords(ScanLines(content))

\* Number of records written to an empty registry and read back.
MaxRecords == 2

\* The file that successive appends of the requests rs leave of an empty one.
RECURSIVE Serialize(_)
Serialize(rs) ==
    IF rs = <<>> THEN <<>>
    ELSE AppendToFrpc(Serialize(SubSeq(rs, 1, Len(rs) - 1)), rs[Len(rs)])

\* A request for a well-formed record: its two ports are numbers.
IsNumber(s) == s # <<>> /\ \A i \in 1..Len(s) : IsDigit(s[i])
WellFormed(r) == IsNumber(r.ListenPort) /\ IsNumber(r.RemotePort)

\* The sequences of up to MaxRecords well-formed requests with distinct names.
DistinctRequests ==
    { rs \in UNION { [1..n -> { r \in AddRequests : WellFormed(r) }] : n \in 1..MaxRecords } :
        \A i, j \in 1..Len(rs) : i # j => ProxyName(rs[i]) # ProxyName(rs[j]) }

AppendDone == last.op = "append" /\ last.err = NoErr

\* C11: when records with distinct names have been appended one after the
\* other to an empty registry, the file parses to these records, each with
\* its name, type, local address and two ports as they were given.
C11_RoundTrip ==
    AppendDone =>
        \A rs \in DistinctRequests :
            content = Serialize(rs) =>
                GetFrpProxies(content) = [k \in 1..Len(rs) |-> Requested(rs[k])]

\* The names of the records of a file are pairwise distinct.
DistinctNames(text) ==
    \A i, j \in 1..Len(GetFrpProxies(text)) :
        i # j => GetFrpProxies(text)[i].Name # GetFrpProxies(text)[j].Name

\* C15: an append, a self-registration or a delete on a registry whose
\* record names are pairwise distinct leaves them pairwise distinct, so that
\* no sequence of them brings two records of one name into the registry.
C15_NamesStayDistinct ==
    (last.op \in {"append", "register", "delete"} /\ last.err = NoErr /\ DistinctNames(prev))
        => DistinctNames(content)

\* C17: the block an add-rule request appends parses back as the last record,
\* named Name-manager-ConnectAddr-ConnectPort, with the local port and the
\* remote port of the request.
C17_AppendedBlockParsesBack ==
    AppendDone =>
        LET proxies == GetFrpProxies(content)
        IN  /\ proxies # <<>>
            /\ proxies[Len(proxies)].Name = ProxyName(last.req)
            /\ proxies[Len(proxies)].LocalPort = last.req.ListenPort
            /\ proxies[Len(proxies)].RemotePort = last.req.RemotePort

\* C19: after a delete of X has succeeded the file parses to no record
\* named X.
C19_DeletedNameNotListed ==
    DeleteDone =>
        \A k \in 1..Len(GetFrpProxies(content)) :
            GetFrpProxies(content)[k].Name # last.name

\* The block appendToFrpc writes for r, and the bytes before it of a file
\* that ends with it.
BlockOf(r) == ProxyBlock(ProxyName(r), r.ListenPort, r.RemotePort)
EndsWithBlockOf(text, r) == HasSuffix(text, BlockOf(r))
BeforeBlockOf(text, r) == SubSeq(text, 1, Len(text) - Len(BlockOf(r)))

\* A delete of the name of r has run on a file that an append of r had left
\* of a file without a block of that name.
DeletedAfterAppend(r) ==
    /\ DeleteDone
    /\ last.name = ProxyName(r)
    /\ EndsWithBlockOf(prev, r)
    /\ \A m \in 1..Len(Split(BeforeBlockOf(prev, r))) :
           ~BlockNamed(Split(BeforeBlockOf(prev, r)), m, ProxyName(r))

\* C20: an append of r to a file with no block of its name, then a delete of
\* that name, gives back the bytes the file had before the append.
C20_AppendThenDeleteRestores ==
    \A r \in AddRequests : DeletedAfterAppend(r) => content = BeforeBlockOf(prev, r)

\* C20's case: the file restored had a proxy block and a last line without
\* its line feed.
C20_Witness ==
    /\ DeletedAfterAppend(ReqTcp)
    /\ content = BeforeBlockOf(prev, ReqTcp)
    /\ \E m \in 1..Len(Split(content)) : IsMarkerLine(Split(content)[m])
    /\ content[Len(content)] # LF

(***************************************************************************)
(* The process locator getFrpcProcess, step by step.                       *)
(***************************************************************************)

\* The request with record rec takes this step and has record rec2 after it.
Steps(rec, rec2) ==
    /\ rec \in BagToSet(reqs)
    /\ rec2 # rec
    /\ reqs' = (reqs (-) SetToBag({rec})) (+) SetToBag({rec2})

\* getFrpcProcess has returned (nil, nil) into the request with record rec2.
ReturnedNone(rec2) == rec2.proc = NoProc /\ rec2.lerr = NoErr /\ rec2.pc \notin {"loc_wmic", "loc_find"}

\* C16: a tasklist probe that does not name frpc.exe makes getFrpcProcess
\* return none without the wmic query; a wmic output without a PID that can
\* be read makes it return none and no error; and a process handle is only
\* returned for the PID read from that output.
C16_LocatorReturns ==
    [][\A rec \in BagToSet(reqs) : \A rec2 \in BagToSet(reqs') :
          Steps(rec, rec2) =>
              /\ (rec.pc = "loc_tasklist" /\ running = {} /\ rec2.lerr = NoErr)
                     => ReturnedNone(rec2)
              /\ (rec.pc = "loc_find" /\ rec.pid \notin PIDs) => ReturnedNone(rec2)
              /\ (rec.pc = "loc_find" /\ rec2.proc # NoProc)
                     => (rec2.proc = rec.pid /\ rec.pid \in PIDs)]_vars

(***************************************************************************)
(* Registry calls that run at the same time.  The handlers take no lock:   *)
(* deleteFrpProxy reads frpc.toml with os.ReadFile and later rewrites it   *)
(* with os.WriteFile, appendToFrpc opens it with O_APPEND and writes its   *)
(* block.  reqs holds the calls, with what each has read or has yet to     *)
(* write; base holds the bytes of the file before the first call.          *)
(***************************************************************************)

\* The files the calls start from: empty, or one piece.
ConcFiles == {<<>>} \cup Chunks

\* The names deleted and the requests appended by the calls.
ConcNames == {NameA, ProxyName(ReqTcp)}
ConcRequests == {ReqTcp, ReqUdp}

\* The writes io.WriteString makes for the block of strings.Builder, in two
\* parts.
WritePiecesTwo(block) == <<SubSeq(block, 1, Len(Marker) + 1), SubSeq(block, Len(Marker) + 2, Len(block))>>

\* Lines 155 and 410: io.WriteString(f, sb.String()), one write of the block.
WritePieces(block) == <<block>>

\* A rewrite with the lines of the file as it is at the time of the write.
WriteBackFresh(snapshot, current, proxyName) == DeleteFrpProxy(current, proxyName)

\* Line 462: os.WriteFile of the lines kept of what line 418 had read.
WriteBack(snapshot, current, proxyName) == DeleteFrpProxy(snapshot, proxyName)

\* The number of calls that have returned.
Returned == { rec \in BagToSet(reqs) : rec.pc = "done" }
ReturnedCount == BagCardinality([rec \in Returned |-> CopiesIn(rec, reqs)])

\* A call of deleteFrpProxy(name) at its entry: lines 418-421, os.ReadFile.
\* started is the number of calls that had returned by then, order the
\* number of those that had returned when this call wrote.
DeleteCall(name) ==
    [fn |-> "delete", name |-> name, req |-> NoReq,
     pc |-> IF exists THEN "write" ELSE "done",
     snapshot |-> content, pieces |-> <<>>, err |-> FileErr,
     started |-> ReturnedCount, order |-> 0]

\* A call of appendToFrpc(r) at its entry: lines 393-410, os.OpenFile and the
\* block built in the strings.Builder.
AppendCall(r) ==
    [fn |-> "append", name |-> ProxyName(r), req |-> r,
     pc |-> IF exists THEN "write" ELSE "done",
     snapshot |-> <<>>, pieces |-> IF exists THEN WritePieces(BlockOf(r)) ELSE <<>>,
     err |-> FileErr, started |-> ReturnedCount, order |-> 0]

ConcFrame == UNCHANGED <<goos, running, exists, prev, base, rep, last, view>>

\* handleDeleteFrpProxy line 206 enters deleteFrpProxy.
ConcBeginDelete ==
    /\ BagCardinality(reqs) < MaxReq
    /\ \E name \in ConcNames : reqs' = reqs (+) SetToBag({DeleteCall(name)})
    /\ UNCHANGED content
    /\ ConcFrame

\* handleAddRule line 234 enters appendToFrpc.
ConcBeginAppend ==
    /\ BagCardinality(reqs) < MaxReq
    /\ \E r \in ConcRequests : reqs' = reqs (+) SetToBag({AppendCall(r)})
    /\ UNCHANGED content
    /\ ConcFrame

\* deleteFrpProxy line 462: the file is rewritten.
ConcDeleteWrite ==
    /\ \E rec \in At("write") :
         /\ rec.fn = "delete"
         /\ content' = WriteBack(rec.snapshot, content, rec.name)
         /\ Step(rec, [rec EXCEPT !.pc = "done", !.order = ReturnedCount])
    /\ ConcFrame

\* appendToFrpc line 410: the next write goes behind the bytes of the file.
ConcAppendWrite ==
    /\ \E rec \in At("write") :
         /\ rec.fn = "append"
         /\ content' = content \o Head(rec.pieces)
         /\ Step(rec, IF Len(rec.pieces) = 1
                      THEN [rec EXCEPT !.pieces = <<>>, !.pc = "done", !.order = ReturnedCount]
                      ELSE [rec EXCEPT !.pieces = Tail(@)])
    /\ ConcFrame

InitConc ==
    /\ goos = "windows"
    /\ running = {}
    /\ reqs = EmptyBag
    /\ exists \in BOOLEAN
    /\ content \in (IF exists THEN ConcFiles ELSE {<<>>})
    /\ prev = content
    /\ base = content
    /\ rep = 0
    /\ last = NoOp
    /\ view = NoView

NextConc ==
    \/ ConcBeginDelete
    \/ ConcBeginAppend
    \/ ConcDeleteWrite
    \/ ConcAppendWrite

SpecConc == InitConc /\ [][NextConc]_vars

\* The file holds a block named name.
HoldsBlock(text, name) == \E m \in 1..Len(Split(text)) : BlockNamed(Split(text), m, name)

\* One delete and one append of another name have both returned nil; the
\* delete had read the file before the append wrote, and rewrote it after.
DeleteAcrossAppend(del, app) ==
    /\ reqs = SetToBag({del, app})
    /\ del.fn = "delete" /\ app.fn = "append"
    /\ del.pc = "done" /\ app.pc = "done"
    /\ del.err = NoErr /\ app.err = NoErr
    /\ del.name # app.name
    /\ del.started = 0 /\ app.order = 0 /\ del.order = 1

\* C12: when a delete of X has read the file, an append of r has then
\* written its block, and the delete has then rewritten the file, both have
\* returned nil and the file holds what the delete computed from its read,
\* without the block of r.
C12_DeleteDropsConcurrentAppend ==
    \A del, app \in BagToSet(reqs) :
        DeleteAcrossAppend(del, app) =>
            /\ content = DeleteFrpProxy(base, del.name)
            /\ ~HoldsBlock(content, app.name)

\* C12's case: such a delete and such an append have returned, and the block
\* appended is lost.
C12_Witness ==
    \E del, app \in BagToSet(reqs) :
        /\ DeleteAcrossAppend(del, app)
        /\ ~HoldsBlock(content, app.name)
        /\ base # <<>>

\* The orders in which the calls of reqs can be put.
Arrangements ==
    { seq \in [1..BagCardinality(reqs) -> BagToSet(reqs)] :
        \A rec \in BagToSet(reqs) :
            Cardinality({ k \in 1..Len(seq) : seq[k] = rec }) = CopiesIn(rec, reqs) }

OnlyAppendsReturned ==
    \A rec \in BagToSet(reqs) : rec.fn = "append" /\ rec.pc = "done" /\ rec.err = NoErr

\* C13: when only appends have run and all have returned, the file is its
\* bytes from before followed by the block of each call, whole, in one of
\* the orders of the calls.
C13_AppendsKeepBlocksWhole ==
    OnlyAppendsReturned =>
        \E seq \in Arrangements :
            content = base \o Concat([k \in 1..Len(seq) |-> BlockOf(seq[k].req)])

\* C13's case: two appends of different requests that were both entered
\* before either wrote have returned.
C13_Witness ==
    /\ OnlyAppendsReturned
    /\ \E a, b \in BagToSet(reqs) : a.req # b.req /\ a.started = 0 /\ b.started = 0
    /\ base # <<>>

(***************************************************************************)
(*          PART IV : THE ADD-RULE AND DELETE-PROXY HANDLER FLOWS          *)
(* handleAddRule: addNetshRule, appendToFrpc, restartFrpc, response.       *)
(* handleDeleteFrpProxy: deleteFrpProxy, restartFrpc, response.            *)
(* The requests are served one after the other.                            *)
(***************************************************************************)

\* Number of requests served in a run of the flows.
MaxFlows == 3

Pending == "pending"
ErrExit == "exit status 1"          \* cmd.Run() of netsh failed
ErrPermission == "ErrPermission"    \* frpc.toml cannot be opened or written
ErrStart == "startFrpc failed"      \* what startFrpc returns on a failure

StatusOK == 200
StatusBadRequest == 400
StatusMethodNotAllowed == 405
StatusInternalServerError == 500

\* A request at the entry of its handler.  netsh, mutation and restart are
\* what addNetshRule, appendToFrpc / deleteFrpProxy and restartFrpc returned
\* to it; rule tells whether the portproxy rule of the request is in the OS;
\* stops and starts count its calls of stopFrpc and startFrpc; snapshot is
\* frpc.toml at its entry and final frpc.toml at its response.
FlowReq(fn, name, r) ==
    [fn |-> fn, name |-> name, req |-> r, pc |-> "decode",
     netsh |-> Pending, mutation |-> Pending, restart |-> Pending,
     rule |-> FALSE, stops |-> 0, starts |-> 0,
     snapshot |-> content, final |-> <<>>, status |-> 0]

\* http.Error(w, ..., code) and the return that follows it, or the
\* WriteHeader(http.StatusOK) at the end of the handler.
Answer(rec, code, text) == [rec EXCEPT !.pc = "done", !.status = code, !.final = text]

\* Lines 193-204 and 221-225: the method check of handleDeleteFrpProxy and
\* the decoding of the body.
Decoded(rec, method, decodes) ==
    IF rec.fn = "delete" /\ method # "POST" THEN Answer(rec, StatusMethodNotAllowed, content)
    ELSE IF ~decodes THEN Answer(rec, StatusBadRequest, content)
    ELSE [rec EXCEPT !.pc = IF rec.fn = "add" THEN "netsh" ELSE "mutate"]

\* Lines 264-277: off Windows addNetshRule logs and returns nil; on Windows
\* it returns what cmd.Run() of netsh returned.
NetshOutcomes(os) == IF os = "windows" THEN {NoErr, ErrExit} ELSE {NoErr}

\* Lines 228-231: the error of addNetshRule ends the request with 500.
AfterNetsh(rec, err) ==
    IF err = NoErr THEN [rec EXCEPT !.netsh = err, !.rule = TRUE, !.pc = "mutate"]
    ELSE Answer([rec EXCEPT !.netsh = err], StatusInternalServerError, content)

\* Lines 393-396, 410-412, 418-421 and 462: what opening, reading and writing
\* frpc.toml can return.
FileOutcomes == IF exists THEN {NoErr, ErrPermission} ELSE {ErrNotExist}

\* The flow going on to restartFrpc whatever the registry call returned.
AfterMutationAlways(rec, err, text) == [rec EXCEPT !.mutation = err, !.pc = "restart"]

\* Lines 206-209 and 234-237: the error of deleteFrpProxy or appendToFrpc
\* ends the request with 500; the rule added before stays.
AfterMutation(rec, err, text) ==
    IF err = NoErr THEN [rec EXCEPT !.mutation = err, !.pc = "restart"]
    ELSE Answer([rec EXCEPT !.mutation = err], StatusInternalServerError, text)

\* Lines 546-549 and 519-522: off Windows stopFrpc and startFrpc return nil;
\* on Windows restartFrpc returns what startFrpc returned (line 607).
RestartOutcomes(os) == IF os = "windows" THEN {NoErr, ErrStart} ELSE {NoErr}

\* Lines 212-217 and 240-246: restartFrpc calls stopFrpc and startFrpc; its
\* error is logged, and the request is answered 200 with status "success".
AfterRestart(rec, err, text) ==
    Answer([rec EXCEPT !.restart = err, !.stops = @ + 1, !.starts = @ + 1], StatusOK, text)

FlowFrame == UNCHANGED <<goos, running, exists, prev, base, rep, last, view>>

Serving == \E rec \in BagToSet(reqs) : rec.pc # "done"

\* A POST /api/add arrives: handleAddRule decodes the body.
FlowBeginAdd ==
    /\ ~Serving
    /\ BagCardinality(reqs) < MaxFlows
    /\ \E r \in ConcRequests, decodes \in BOOLEAN :
         reqs' = reqs (+) SetToBag({Decoded(FlowReq("add", ProxyName(r), r), "POST", decodes)})
    /\ UNCHANGED content
    /\ FlowFrame

\* A request for /api/frp/delete arrives: handleDeleteFrpProxy checks the
\* method and decodes the body.
FlowBeginDelete ==
    /\ ~Serving
    /\ BagCardinality(reqs) < MaxFlows
    /\ \E name \in ConcNames, method \in {"POST", "GET"}, decodes \in BOOLEAN :
         reqs' = reqs (+) SetToBag({Decoded(FlowReq("delete", name, NoReq), method, decodes)})
    /\ UNCHANGED content
    /\ FlowFrame

\* handleAddRule line 228: addNetshRule.
FlowNetsh ==
    /\ \E rec \in At("netsh") : \E err \in NetshOutcomes(goos) :
         Step(rec, AfterNetsh(rec, err))
    /\ UNCHANGED content
    /\ FlowFrame

\* handleAddRule line 234: appendToFrpc.
FlowAppend ==
    /\ \E rec \in At("mutate") : \E err \in FileOutcomes :
         LET text == IF err = NoErr THEN AppendToFrpc(content, rec.req) ELSE content
         IN  /\ rec.fn = "add"
             /\ content' = text
             /\ Step(rec, AfterMutation(rec, err, text))
    /\ FlowFrame

\* handleDeleteFrpProxy line 206: deleteFrpProxy.
FlowDelete ==
    /\ \E rec \in At("mutate") : \E err \in FileOutcomes :
         LET text == IF err = NoErr THEN DeleteFrpProxy(content, rec.name) ELSE content
         IN  /\ rec.fn = "delete"
             /\ content' = text
             /\ Step(rec, AfterMutation(rec, err, text))
    /\ FlowFrame

\* Lines 212-217 and 240-246: restartFrpc and the response.
FlowRestart ==
    /\ \E rec \in At("restart") : \E err \in RestartOutcomes(goos) :
         Step(rec, AfterRestart(rec, err, content))
    /\ UNCHANGED content
    /\ FlowFrame

InitFlow ==
    /\ goos \in {"windows", "other"}
    /\ running = {}
    /\ reqs = EmptyBag
    /\ exists \in BOOLEAN
    /\ content \in (IF exists THEN ConcFiles ELSE {<<>>})
    /\ prev = content
    /\ base = content
    /\ rep = 0
    /\ last = NoOp
    /\ view = NoView

NextFlow ==
    \/ FlowBeginAdd
    \/ FlowBeginDelete
    \/ FlowNetsh
    \/ FlowAppend
    \/ FlowDelete
    \/ FlowRestart

SpecFlow == InitFlow /\ [][NextFlow]_vars

Failed(v) == v # Pending /\ v # NoErr

\* A step of the flow of the request failed.
SomeStepFailed(rec) == Failed(rec.netsh) \/ Failed(rec.mutation) \/ Failed(rec.restart)

\* C14: a request of the add-rule or delete-proxy flow in which a step
\* failed is answered with a status outside 200..299.
C14_NoPartialSuccess ==
    \A rec \in BagToSet(reqs) :
        rec.pc = "done" /\ SomeStepFailed(rec) => rec.status \notin 200..299

\* C18: stopFrpc and startFrpc are called only in a request whose registry
\* call returned nil; a request whose addNetshRule failed leaves frpc.toml
\* as it was and calls neither; a request whose registry call failed calls
\* neither, and in the add-rule flow its portproxy rule stays in the OS.
C18_RestartOnlyAfterMutation ==
    \A rec \in BagToSet(reqs) :
        /\ (rec.stops > 0 \/ rec.starts > 0) => rec.mutation = NoErr
        /\ Failed(rec.netsh) =>
              /\ rec.pc = "done" /\ rec.final = rec.snapshot
              /\ rec.mutation = Pending
              /\ rec.stops = 0 /\ rec.starts = 0
        /\ Failed(rec.mutation) =>
              /\ rec.pc = "done"
              /\ rec.stops = 0 /\ rec.starts = 0
              /\ (rec.fn = "add" => rec.rule)

\* C18's case: one request was stopped by its addNetshRule, another by its
\* appendToFrpc after its rule was added, and a third restarted frpc after
\* its registry call had changed frpc.toml.
C18_Witness ==
    \E a, b, c \in BagToSet(reqs) :
        /\ a.fn = "add" /\ Failed(a.netsh) /\ a.pc = "done"
        /\ b.fn = "add" /\ b.netsh = NoErr /\ Failed(b.mutation) /\ b.rule /\ b.pc = "done"
        /\ c.pc = "done" /\ c.mutation = NoErr /\ c.starts = 1 /\ c.final # c.snapshot

=============================================================================
